---- MODULE Spec2Model ----
(***************************************************************************)
(* Victron BLE HTTP gateway (src/victron-ble-http-gateway.js).             *)
(*                                                                         *)
(* The script is a set of run-to-completion handlers driven by the Shelly  *)
(* event loop: onBle (one BLE advertisement), httpCallback (completion of  *)
(* one HTTP.POST), resetBusy (the 10 s watchdog of one send) and           *)
(* cleanupLastSent (the repeating cleanup timer).  Every handler is one    *)
(* action; Tick is the wall clock, Math.floor(Date.now() / 1000).          *)
(*                                                                         *)
(* Strings the code takes apart (addresses, hex payloads) are sequences   *)
(* of one-character strings; advData is a sequence of byte values.         *)
(***************************************************************************)
EXTENDS Integers, Sequences, FiniteSets, TLC

VARIABLES
    now,                \* Math.floor(Date.now() / 1000)
    busy,               \* let busy
    busyTimer,          \* let busyTimer: 0 is null, else a timer handle
    currentMac,         \* let currentMac
    consecutiveErrors,  \* let consecutiveErrors
    backoffUntil,       \* let backoffUntil
    lastSent,           \* let lastSent: normalized address -> timestamp
    timers,             \* armed one-shot timers: handle -> due time
    cleanupDue,         \* due time of the repeating cleanup timer
    pending,            \* HTTP.POST calls whose callback has not run yet
    scanned,            \* environment: the addresses the scanner reports
    quiet,              \* environment: no advertisement arrives after this time
    nsends,             \* history: number of accepted sends (send ids 1..nsends)
    wdFired,            \* history: sends whose own watchdog has expired
    lastFwd,            \* history: address -> time of its latest forwarded packet
    probe,              \* a payload and an allow-list put to hasMfg, and its answer
    last                \* history: the handler that ran last, and what it did

vars == <<now, busy, busyTimer, currentMac, consecutiveErrors, backoffUntil,
          lastSent, timers, cleanupDue, pending, scanned, quiet, nsends, wdFired,
          lastFwd, probe, last>>

(***************************** configuration *******************************)
\* USER CONFIG of the script (lines 41-43).  RATE_LIMIT_SEC has the shipped
\* value.  MAX_LASTSENT_ENTRIES and CLEANUP_INTERVAL_SEC are model bounds: the
\* script ships with 50 entries and 300 s, and the model runs it configured
\* with a small store and a short period, so that a store over capacity and
\* a cleanup pass occur within the explored horizon.
RATE_LIMIT_SEC == 5
MAX_LASTSENT_ENTRIES == 1
CLEANUP_INTERVAL_SEC == 7
\* Timer.set(10000, false, resetBusy), in seconds
WATCHDOG_SEC == 10
\* applyBackoff: tolerated run of errors, seconds per error, cap
BACKOFF_MIN_ERRORS == 3
BACKOFF_STEP_SEC == 5
BACKOFF_MAX_SEC == 60
\* let MFG = [0x0499, 0x0059, 0x0067, 0x02E1, 0x0F53]
MFG == <<1177, 89, 103, 737, 3923>>
\* BLE.Scanner.SCAN_RESULT and some other scanner event
SCAN_RESULT == 2
SCAN_OTHER == 1

(******************************** bounds ***********************************)
\* Advertisements arrive while now <= Horizon (the value of quiet after a
\* fresh start).
Horizon == 15
\* Sends accepted in one behaviour.
MaxSends == 3
\* Longest run of consecutive failures a late start begins with.
MaxInitErrors == 13
\* Clock value of a late start.
StartLate == 1000
\* the longest payload put to the filter alone, in bytes
MaxPayloadLen == 4

NULL == 0

Min(a, b) == IF a < b THEN a ELSE b

(***************************** string helpers ******************************)
LowerHex == <<"0","1","2","3","4","5","6","7","8","9","a","b","c","d","e","f">>

\* Number.prototype.toString(16) of a value 0..255: lowercase, no padding
toString16(n) ==
    IF n < 16 THEN <<LowerHex[n + 1]>>
    ELSE <<LowerHex[(n \div 16) + 1], LowerHex[(n % 16) + 1]>>

UpperChar(c) ==
    CASE c = "a" -> "A" [] c = "b" -> "B" [] c = "c" -> "C"
      [] c = "d" -> "D" [] c = "e" -> "E" [] c = "f" -> "F"
      [] OTHER -> c

\* String.prototype.toUpperCase
toUpperCase(s) == [i \in 1..Len(s) |-> UpperChar(s[i])]

\* String.prototype.indexOf(p) !== -1
Contains(s, p) ==
    \E i \in 0..(Len(s) - Len(p)) : \A j \in 1..Len(p) : s[i + j] = p[j]

Pad2(h) == IF Len(h) = 1 THEN <<"0">> \o h ELSE h

RECURSIVE hexLoop(_, _)
hexLoop(s, i) ==
    IF i > Len(s) THEN <<>> ELSE Pad2(toString16(s[i])) \o hexLoop(s, i + 1)

\* hex(s): two uppercase hex digits per byte
hex(s) == toUpperCase(hexLoop(s, 1))

\* the id taken high byte first
hasMfg_highFirst(d, ids) ==
    IF Len(ids) = 0 THEN TRUE
    ELSE \E i \in 1..Len(ids) :
            LET lo == Pad2(toString16(ids[i] % 256))
                hi == Pad2(toString16((ids[i] \div 256) % 256))
            IN  Contains(d, <<"F", "F">> \o toUpperCase(hi) \o toUpperCase(lo))

\* hasMfg(d, ids)
hasMfg(d, ids) ==
    IF Len(ids) = 0 THEN TRUE
    ELSE \E i \in 1..Len(ids) :
            LET lo == Pad2(toString16(ids[i] % 256))
                hi == Pad2(toString16((ids[i] \div 256) % 256))
            IN  Contains(d, <<"F", "F">> \o toUpperCase(lo) \o toUpperCase(hi))

RECURSIVE colonLoop(_, _)
colonLoop(m, i) ==
    IF i > Len(m) THEN <<>>
    ELSE (IF i > 1 THEN <<":">> ELSE <<>>)
         \o SubSeq(m, i, Min(i + 1, Len(m)))
         \o colonLoop(m, i + 2)

\* onBle lines 179-187: upper-case, insert ":" after every 2 characters
\* when the address has none
normalizeAddr(addr) ==
    LET m == toUpperCase(addr)
    IN  IF Contains(m, <<":">>) THEN m ELSE colonLoop(m, 1)

(******************************* inputs ************************************)
\* res.addr as the scanner may deliver it; <<>> is a missing address
RawAddrs == { <<>>,
              <<"a","a","b","b">>, <<"A","A",":","B","B">>,
              <<"c","c","0","1">> }
\* a neighbourhood with more devices than the store keeps
ManyAddrs == { <<"a","a","b","b">>, <<"c","c","0","1">>, <<"E","E",":","0","2">> }

\* res.advData; <<>> is a missing or empty payload
Payloads == { <<>>,
              <<2, 1, 6, 255, 225, 2, 16>>,    \* FF E1 02: Victron 0x02E1
              <<255, 170, 1>>,                 \* FF AA 01: not allowed
              <<153, 4, 255>> }                \* id bytes not after FF

\* completion (r, e) of HTTP.POST: e is the error code, r is <<>> for a
\* missing response object or <<code>> for a response with that status
Responses == { <<>>, <<200>>, <<500>> }
ErrorCodes == { 0, -1 }

NoRecords == [m \in {} |-> 0]

\* payloads put to the filter alone: every byte string of 1..MaxPayloadLen
\* bytes over FilterBytes
FilterBytes == { 4, 15, 64, 144, 153, 249, 255 }
FilterPayloads == UNION { [1..n -> FilterBytes] : n \in 1..MaxPayloadLen }
\* allow-lists: empty (accept all), 0x0499, 0x0059 and 0x0499, 0x9904,
\* 0x10499 (wider than two bytes), 0x0F04, and the shipped list
AllowLists == { <<>>, <<1177>>, <<89, 1177>>, <<39172>>, <<66713>>, <<3844>>, MFG }
NoProbe == [data |-> <<>>, ids |-> <<>>, out |-> <<>>]

Event(op, id, mac, res, n) == [op |-> op, id |-> id, mac |-> mac, res |-> res, n |-> n]

(******************************** Init *************************************)
Env(addrs, until) == scanned = addrs /\ quiet = until

\* the state the top-level code leaves (lines 46-52, init() line 217)
Fresh ==
    /\ now = 0
    /\ busy = FALSE
    /\ busyTimer = NULL
    /\ currentMac = <<>>
    /\ consecutiveErrors = 0
    /\ backoffUntil = 0
    /\ lastSent = NoRecords
    /\ timers = NoRecords
    /\ cleanupDue = now + CLEANUP_INTERVAL_SEC
    /\ pending = {}
    /\ nsends = 0
    /\ wdFired = {}
    /\ lastFwd = NoRecords
    /\ last = Event("init", 0, <<>>, "", 0)

Init == Fresh /\ Env(RawAddrs, Horizon) /\ probe = NoProbe


(************************** Backoff Controller *****************************)
\* applyBackoff starting the cooldown one failure early
applyBackoff_early(errors, until, t) ==
    IF errors < BACKOFF_MIN_ERRORS THEN until
    ELSE t + Min(BACKOFF_MAX_SEC, errors * BACKOFF_STEP_SEC)

\* applyBackoff without the 60 s cap
applyBackoff_nocap(errors, until, t) ==
    IF errors <= BACKOFF_MIN_ERRORS THEN until
    ELSE t + errors * BACKOFF_STEP_SEC

\* applyBackoff storing the duration instead of the end time
applyBackoff_duration(errors, until, t) ==
    IF errors <= BACKOFF_MIN_ERRORS THEN until
    ELSE Min(BACKOFF_MAX_SEC, errors * BACKOFF_STEP_SEC)

\* applyBackoff(), lines 98-104: the value of backoffUntil it leaves, given
\* the error count, the stored backoffUntil and the clock
applyBackoff(errors, until, t) ==
    IF errors <= BACKOFF_MIN_ERRORS THEN until
    ELSE t + Min(BACKOFF_MAX_SEC, errors * BACKOFF_STEP_SEC)

\* consecutiveErrors++; applyBackoff(): lines 68-69, 77-78, 85-86, 94-95.
\* The pair <<consecutiveErrors, backoffUntil>> a failure report leaves.
onFailure(errors, until, t) ==
    <<errors + 1, applyBackoff(errors + 1, until, t)>>

\* a success that resets the count and keeps the cooldown
onSuccess_keepsCooldown(errors, until) == <<0, until>>

\* lines 80-81: consecutiveErrors = 0; backoffUntil = 0
onSuccess(errors, until) == <<0, 0>>

\* any response without a transport error taken as a success
IsSuccess_anyResponse(r, e) == e = 0 /\ Len(r) > 0

\* httpCallback lines 66-87: only e === 0 with r.code === 200 is a success
IsSuccess(r, e) == e = 0 /\ Len(r) > 0 /\ r[1] = 200

\* the cooldown test of line 152 left out
isInCooldown_off(until, t) == FALSE

\* send() line 152
isInCooldown(until, t) == until > t

(***************************** Delivery Slot *******************************)
\* the handle forgotten without cancelling its timer
ClearBusyTimer_noop(ts, handle) == ts

\* httpCallback lines 55-60: Timer.clear(busyTimer) when a handle is stored
ClearBusyTimer(ts, handle) ==
    IF handle # NULL THEN [h \in DOMAIN ts \ {handle} |-> ts[h]] ELSE ts

\* httpCallback(r, e) as the completion of send `id`
httpCallback(id, r, e) ==
    /\ id \in pending
    /\ pending' = pending \ {id}
    /\ busy' = FALSE
    /\ timers' = ClearBusyTimer(timers, busyTimer)
    /\ busyTimer' = NULL
    /\ LET out == IF IsSuccess(r, e) THEN onSuccess(consecutiveErrors, backoffUntil)
                  ELSE onFailure(consecutiveErrors, backoffUntil, now)
       IN  consecutiveErrors' = out[1] /\ backoffUntil' = out[2]
    /\ last' = Event("httpCallback", id, currentMac,
                     IF IsSuccess(r, e) THEN "success" ELSE "failure",
                     consecutiveErrors)
    /\ UNCHANGED <<now, currentMac, lastSent, cleanupDue, scanned, quiet, probe, nsends, wdFired,
                   lastFwd>>

\* a watchdog that reports the failure and leaves the slot taken
resetBusy_keepsBusy(h) ==
    /\ h \in DOMAIN timers
    /\ timers[h] <= now
    /\ timers' = [k \in DOMAIN timers \ {h} |-> timers[k]]
    /\ busy' = busy
    /\ busyTimer' = NULL
    /\ LET out == onFailure(consecutiveErrors, backoffUntil, now)
       IN  consecutiveErrors' = out[1] /\ backoffUntil' = out[2]
    /\ wdFired' = wdFired \cup {h}
    /\ last' = Event("resetBusy", h, currentMac, "failure", consecutiveErrors)
    /\ UNCHANGED <<now, currentMac, lastSent, cleanupDue, pending, scanned, quiet, probe, nsends,
                   lastFwd>>

\* resetBusy(), lines 90-96, run by the one-shot timer `h` when it is due
resetBusy(h) ==
    /\ h \in DOMAIN timers
    /\ timers[h] <= now
    /\ timers' = [k \in DOMAIN timers \ {h} |-> timers[k]]
    /\ busy' = FALSE
    /\ busyTimer' = NULL
    /\ LET out == onFailure(consecutiveErrors, backoffUntil, now)
       IN  consecutiveErrors' = out[1] /\ backoffUntil' = out[2]
    /\ wdFired' = wdFired \cup {h}
    /\ last' = Event("resetBusy", h, currentMac, "failure", consecutiveErrors)
    /\ UNCHANGED <<now, currentMac, lastSent, cleanupDue, pending, scanned, quiet, probe, nsends,
                   lastFwd>>

\* the early return of line 152 left out
SendRejected_onlyBusy == busy

\* send() lines 149-152: the two early returns
SendRejected == busy \/ isInCooldown(backoffUntil, now)

\* send(mac, rssi, data), lines 148-171.  The request body is not part of
\* the state; the timer handle and the request carry the id of the send.
send(mac) ==
    IF SendRejected
    THEN UNCHANGED <<busy, busyTimer, currentMac, timers, pending, nsends>>
    ELSE /\ nsends < MaxSends
         /\ nsends' = nsends + 1
         /\ currentMac' = mac
         /\ busy' = TRUE
         /\ busyTimer' = nsends + 1
         /\ timers' = [h \in DOMAIN timers \cup {nsends + 1} |->
                          IF h = nsends + 1 THEN now + WATCHDOG_SEC ELSE timers[h]]
         /\ pending' = pending \cup {nsends + 1}

(************************* Dedup / Rate-Limit Store ************************)
\* onBle line 190: lastSent[m] || 0
lastSentAt(store, m) == IF m \in DOMAIN store THEN store[m] ELSE 0

RateLimited(store, m, t) == t - lastSentAt(store, m) < RATE_LIMIT_SEC

\* a record written only for a device the store does not know yet
Record_keepsFirst(store, m, t) ==
    [k \in DOMAIN store \cup {m} |-> IF k \in DOMAIN store THEN store[k] ELSE t]

\* lastSent[m] = now
Record(store, m, t) ==
    [k \in DOMAIN store \cup {m} |-> IF k = m THEN t ELSE store[k]]

\* one entry too few is removed
toRemove_short(n) == n - MAX_LASTSENT_ENTRIES - 1

\* cleanupLastSent line 121
toRemove(n) == n - MAX_LASTSENT_ENTRIES

\* the sort of line 119 turned round: the youngest entries are deleted
Evictable_youngestFirst(store, t) ==
    LET age(k) == t - store[k]
    IN  { R \in SUBSET DOMAIN store :
            /\ Cardinality(R) = toRemove(Cardinality(DOMAIN store))
            /\ \A r \in R : \A k \in DOMAIN store \ R : age(r) <= age(k) }

\* cleanupLastSent lines 112-122: the key sets the pass may delete.  The
\* entries are sorted by age, oldest first, and the first toRemove are
\* deleted; the order among entries of equal age is left to the sort.
Evictable(store, t) ==
    LET age(k) == t - store[k]
    IN  { R \in SUBSET DOMAIN store :
            /\ Cardinality(R) = toRemove(Cardinality(DOMAIN store))
            /\ \A r \in R : \A k \in DOMAIN store \ R : age(r) >= age(k) }

\* cleanupLastSent(), lines 106-125, run by the repeating timer
cleanupLastSent ==
    /\ cleanupDue <= now
    /\ cleanupDue' = cleanupDue + CLEANUP_INTERVAL_SEC
    /\ IF Cardinality(DOMAIN lastSent) <= MAX_LASTSENT_ENTRIES
       THEN /\ lastSent' = lastSent
            /\ last' = Event("cleanupLastSent", 0, <<>>, "kept", 0)
       ELSE /\ \E R \in Evictable(lastSent, now) :
                 lastSent' = [k \in DOMAIN lastSent \ R |-> lastSent[k]]
            /\ last' = Event("cleanupLastSent", 0, <<>>, "evicted",
                             Cardinality(DOMAIN lastSent))
    /\ UNCHANGED <<now, busy, busyTimer, currentMac, consecutiveErrors, backoffUntil,
                   timers, pending, scanned, quiet, probe, nsends, wdFired, lastFwd>>

(*************************** Gateway Coordinator ***************************)
\* the address check of line 174 left out
Malformed_noAddrCheck(ev, hasRes, addr) == ev # SCAN_RESULT \/ ~hasRes

\* onBle line 174: ev !== BLE.Scanner.SCAN_RESULT || !res || !res.addr
Malformed(ev, hasRes, addr) == ev # SCAN_RESULT \/ ~hasRes \/ Len(addr) = 0

\* onBle(ev, res), lines 173-196.  hasRes is false for a null res; addr and
\* data are res.addr and res.advData.
onBle(ev, hasRes, addr, data) ==
    /\ now <= quiet
    /\ UNCHANGED <<now, consecutiveErrors, backoffUntil, cleanupDue, scanned, quiet, probe, wdFired>>
    /\ IF Malformed(ev, hasRes, addr)
       THEN /\ last' = Event("onBle", 0, <<>>, "dropped", 0)
            /\ UNCHANGED <<busy, busyTimer, currentMac, lastSent, timers, pending,
                           nsends, lastFwd>>
       ELSE LET d == IF Len(data) > 0 THEN hex(data) ELSE <<>>
            IN  IF Len(d) = 0 \/ ~hasMfg(d, MFG)
                THEN /\ last' = Event("onBle", 0, <<>>, "dropped", 0)
                     /\ UNCHANGED <<busy, busyTimer, currentMac, lastSent, timers,
                                    pending, nsends, lastFwd>>
                ELSE LET m == normalizeAddr(addr)
                     IN  IF RateLimited(lastSent, m, now)
                         THEN /\ last' = Event("onBle", 0, <<>>, "dropped", 0)
                              /\ UNCHANGED <<busy, busyTimer, currentMac, lastSent,
                                             timers, pending, nsends, lastFwd>>
                         ELSE /\ lastSent' = Record(lastSent, m, now)
                              /\ lastFwd' = Record(lastFwd, m, now)
                              /\ send(m)
                              /\ last' = Event("onBle", IF SendRejected THEN 0 ELSE nsends + 1,
                                               m, IF SendRejected THEN "rejected" ELSE "sent", 0)

(********************************* clock ***********************************)
\* One second passes.  A timer runs in the second it falls due.  The clock
\* is followed while advertisements may arrive, a watchdog is armed or a
\* cooldown has not yet expired.
Tick ==
    /\ \A h \in DOMAIN timers : timers[h] > now
    /\ cleanupDue > now
    /\ now < quiet \/ DOMAIN timers # {} \/ backoffUntil >= now
    /\ now' = now + 1
    /\ last' = Event("Tick", 0, <<>>, "", 0)
    /\ UNCHANGED <<busy, busyTimer, currentMac, consecutiveErrors, backoffUntil,
                   lastSent, timers, cleanupDue, pending, scanned, quiet, probe, nsends,
                   wdFired, lastFwd>>

\* (ev, res present, res.addr, res.advData) of the events the scanner delivers
Adverts ==
    { <<SCAN_OTHER, TRUE, <<"c","c","0","1">>, <<255, 153, 4, 5>>>> }
    \cup { <<SCAN_RESULT, FALSE, <<>>, <<>>>> }
    \cup { <<SCAN_RESULT, TRUE, a, p>> : a \in scanned, p \in Payloads }

Advertisement ==
    \E a \in Adverts : onBle(a[1], a[2], a[3], a[4])

Completion ==
    \E id \in pending, r \in Responses, e \in ErrorCodes : httpCallback(id, r, e)

Watchdog == \E h \in DOMAIN timers : resetBusy(h)

Next == Advertisement \/ Completion \/ Watchdog \/ cleanupLastSent \/ Tick

Spec == Init /\ [][Next]_vars

\* a crowded neighbourhood, observed over one cleanup period
InitStore == Fresh /\ Env(ManyAddrs, CLEANUP_INTERVAL_SEC) /\ probe = NoProbe
SpecStore == InitStore /\ [][Next]_vars

\* The gateway some time into its life: idle, after a run of n consecutive
\* failures whose cooldown has just run out, the last forward a minute ago.
\* Advertisements are observed for one more second.
InitBackoff ==
    \E n \in 0..MaxInitErrors :
        /\ now = StartLate
        /\ busy = FALSE
        /\ busyTimer = NULL
        /\ currentMac = normalizeAddr(<<"a","a","b","b">>)
        /\ consecutiveErrors = n
        /\ backoffUntil = IF n <= BACKOFF_MIN_ERRORS THEN 0 ELSE now
        /\ lastSent = Record(NoRecords, currentMac, now - BACKOFF_MAX_SEC)
        /\ timers = NoRecords
        /\ cleanupDue = now + 1
        /\ pending = {}
        /\ nsends = 0
        /\ wdFired = {}
        /\ lastFwd = lastSent
        /\ last = Event("init", 0, <<>>, "", 0)
        /\ Env(RawAddrs, now + 1)
        /\ probe = NoProbe
SpecBackoff == InitBackoff /\ [][Next]_vars

\* The manufacturer filter alone (onBle lines 176-177): a non-empty payload is
\* rendered by hex() and put to hasMfg() with an allow-list.
InitFilter ==
    /\ Fresh
    /\ Env({}, 0)
    /\ \E data \in FilterPayloads, ids \in AllowLists :
            probe = [data |-> data, ids |-> ids, out |-> <<>>]

Filter ==
    /\ probe.out = <<>>
    /\ LET d == hex(probe.data)
       IN  /\ Len(d) # 0
           /\ probe' = [probe EXCEPT !.out = <<hasMfg(d, probe.ids)>>]
    /\ UNCHANGED <<now, busy, busyTimer, currentMac, consecutiveErrors, backoffUntil,
                   lastSent, timers, cleanupDue, pending, scanned, quiet, nsends,
                   wdFired, lastFwd, last>>

SpecFilter == InitFilter /\ [][Filter]_vars

\* the event loop runs a timer that is due, and the clock does not stop
FairSpec == Spec /\ WF_vars(Tick) /\ WF_vars(Watchdog) /\ WF_vars(cleanupLastSent)

(******************************** claims ***********************************)
\* accepted sends whose completion has not run and whose own watchdog has
\* not expired
Unresolved == { id \in 1..nsends : id \in pending /\ id \notin wdFired }

\* the last step was a report of a failure to the Backoff Controller
FailureReported(ev) == ev.op \in {"httpCallback", "resetBusy"} /\ ev.res = "failure"

\* the last step was an advertisement that passed the rate limit
Forwarded(ev) == ev.op = "onBle" /\ ev.res \in {"sent", "rejected"}

\* C1: at most one delivery is in flight: a send is accepted only after every
\* earlier accepted send has completed or its own watchdog has expired, so
\* no two accepted sends are unresolved at the same time.
C1_OneInFlight == Cardinality(Unresolved) <= 1

\* C2: a completion that runs after the watchdog of its send has fired is a
\* no-op: it leaves busy, busyTimer, consecutiveErrors and backoffUntil
\* unchanged.
C2_LateCompletionNoOp ==
    [][ \A id \in wdFired, r \in Responses, e \in ErrorCodes :
            httpCallback(id, r, e) =>
                UNCHANGED <<busy, busyTimer, consecutiveErrors, backoffUntil>> ]_vars

\* C3: watchdog recovery: while the completion of the send that holds the
\* slot has not arrived, the slot returns to idle only by that send's
\* watchdog, which reports exactly one failure and clears the handle.
C3_WatchdogRecovery ==
    [][ (busy /\ ~busy' /\ nsends \in pending') =>
            /\ wdFired' = wdFired \cup {nsends}
            /\ nsends \notin wdFired
            /\ consecutiveErrors' = consecutiveErrors + 1
            /\ busyTimer' = NULL ]_vars

\* C4: per-device rate limit: a packet of device D is forwarded only when no
\* packet of D was forwarded in the RATE_LIMIT_SEC seconds before.
C4_RateLimit ==
    [][ Forwarded(last') =>
            \/ last'.mac \notin DOMAIN lastFwd
            \/ now >= lastFwd[last'.mac] + RATE_LIMIT_SEC ]_vars

\* C5: after a cleanup pass the store holds at most MAX_LASTSENT_ENTRIES
\* records, and exactly that many when it held more before the pass.
C5_CapacityAfterCleanup ==
    [][ last'.op = "cleanupLastSent" =>
            /\ Cardinality(DOMAIN lastSent') <= MAX_LASTSENT_ENTRIES
            /\ Cardinality(DOMAIN lastSent) > MAX_LASTSENT_ENTRIES
                  => Cardinality(DOMAIN lastSent') = MAX_LASTSENT_ENTRIES ]_vars

\* the store was over capacity by two records and a pass has cut it down
C5_Witness ==
    /\ last.op = "cleanupLastSent"
    /\ last.res = "evicted"
    /\ last.n = MAX_LASTSENT_ENTRIES + 2
    /\ Cardinality(DOMAIN lastSent) = MAX_LASTSENT_ENTRIES

\* C6: a failure report at time t that brings consecutiveErrors to n > 3 sets
\* backoffUntil to t + min(60, 5 n) (20 s at n = 4, 60 s from n = 12 on), and
\* only a success lowers backoffUntil, so the cooldown is active for every
\* now in [t, t + min(60, 5 n)) unless a success is reported first.
C6_BackoffEscalation ==
    [][ /\ (FailureReported(last') /\ consecutiveErrors' > 3) =>
              /\ consecutiveErrors' = consecutiveErrors + 1
              /\ backoffUntil' = now + Min(60, 5 * consecutiveErrors')
              /\ consecutiveErrors' = 4 => backoffUntil' = now + 20
              /\ consecutiveErrors' >= 12 => backoffUntil' = now + 60
              /\ isInCooldown(backoffUntil', now')
        /\ ~(last'.op = "httpCallback" /\ last'.res = "success") =>
              backoffUntil' >= backoffUntil ]_vars

\* the 13th consecutive failure has just been reported: the cap applies
C6_Witness ==
    /\ FailureReported(last)
    /\ consecutiveErrors = 13
    /\ backoffUntil = now + 60

\* C7: a completion with error code 0 and status 200 leaves
\* consecutiveErrors = 0 and backoffUntil = 0, so no cooldown is active,
\* whatever the count and the cooldown were before.
C7_SuccessClears ==
    [][ \A id \in pending :
            httpCallback(id, <<200>>, 0) =>
                /\ consecutiveErrors' = 0
                /\ backoffUntil' = 0
                /\ ~isInCooldown(backoffUntil', now') ]_vars

\* a success has just cleared a run of more than 3 failures
C7_Witness ==
    /\ last.op = "httpCallback"
    /\ last.res = "success"
    /\ last.n > 3
    /\ consecutiveErrors = 0
    /\ backoffUntil = 0

\* C8 as claimed: backoffUntil is 0 or not before the current time.
C8_CooldownNeverStale == backoffUntil = 0 \/ backoffUntil >= now

\* C8 as amended: backoffUntil is 0 or later than the time at which it was
\* set; nothing resets it when it expires, only a success does.
C8_CooldownSetAhead ==
    [][ backoffUntil' # backoffUntil =>
            \/ backoffUntil' = 0 /\ last'.res = "success"
            \/ backoffUntil' > now' /\ FailureReported(last') ]_vars

\* a cooldown has been set by a failure report
C8_Witness ==
    /\ FailureReported(last)
    /\ backoffUntil > now

\* C9: an advertisement that passes the filter and whose address has no
\* record in the store is forwarded (recorded and handed to send) at every
\* time now.
C9_UnknownIsEligible ==
    [][ \A a \in Adverts :
            LET m == normalizeAddr(a[3])
            IN  ( /\ a[1] = SCAN_RESULT /\ a[2] /\ Len(a[3]) > 0 /\ Len(a[4]) > 0
                  /\ hasMfg(hex(a[4]), MFG)
                  /\ m \notin DOMAIN lastSent
                  /\ onBle(a[1], a[2], a[3], a[4]) )
                => (Forwarded(last') /\ lastSent' = Record(lastSent, m, now)) ]_vars

\* C10: whenever busy is true it eventually becomes false, provided armed
\* timers eventually fire.
C10_NeverWedged == busy ~> ~busy

\* a send has been released by its watchdog while its completion is
\* still outstanding
C10_Witness ==
    /\ last.op = "resetBusy"
    /\ last.id \in pending
    /\ ~busy

\* the payloads of the scanner that are not empty and pass the filter
QualifyingPayloads == { p \in Payloads : p # <<>> /\ hasMfg(hex(p), MFG) }

\* the advertisement is well-formed and its payload passes the filter
Qualifies(a) ==
    /\ a[1] = SCAN_RESULT /\ a[2] /\ a[3] # <<>>
    /\ a[4] \in QualifyingPayloads

\* C11: an advertisement that is malformed (wrong event kind, missing result
\* or address, empty payload) or does not pass the manufacturer filter leaves
\* the store, the delivery state and the backoff state unchanged and issues no
\* transport request.
C11_DroppedLeavesState ==
    [][ \/ UNCHANGED <<lastSent, busy, busyTimer, currentMac, consecutiveErrors,
                        backoffUntil, timers, pending, nsends>>
        \/ \A a \in Adverts : ~onBle(a[1], a[2], a[3], a[4]) \/ Qualifies(a) ]_vars

\* an advertisement has been dropped while a send was in flight after a
\* failure, at a time when no scanned device was rate-limited: it was dropped
\* as malformed or by the filter
C11_Witness ==
    /\ last.op = "onBle"
    /\ last.res = "dropped"
    /\ busy
    /\ consecutiveErrors > 0
    /\ \A a \in scanned \ {<<>>} : ~RateLimited(lastSent, normalizeAddr(a), now)

UpperHexDigits == <<"0","1","2","3","4","5","6","7","8","9","A","B","C","D","E","F">>
\* a byte as exactly two uppercase hexadecimal digits
TwoDigits(b) == <<UpperHexDigits[(b \div 16) + 1], UpperHexDigits[(b % 16) + 1]>>
\* the low byte, then the high byte of id stand in d right after an "FF"
IdAfterFF(d, id) ==
    \E i \in 1..(Len(d) - 5) :
        /\ d[i] = "F" /\ d[i + 1] = "F"
        /\ SubSeq(d, i + 2, i + 3) = TwoDigits(id % 256)
        /\ SubSeq(d, i + 4, i + 5) = TwoDigits((id \div 256) % 256)

\* C12: for a non-empty uppercase-hex payload d and an allow-list ids,
\* hasMfg(d, ids) is true exactly when ids is empty or some id of ids has its
\* two bytes, low byte first, each as two uppercase hex digits, in d right
\* after the substring "FF".
C12_FilterResult ==
    probe.out # <<>> =>
        probe.out[1] = ( \/ Len(probe.ids) = 0
                         \/ \E k \in 1..Len(probe.ids) :
                                IdAfterFF(hex(probe.data), probe.ids[k]) )

\* the filter has accepted a payload whose "FF9904" starts inside a byte
\* (0F F9 90 40) for the allow-list [0x0499]
C12_Witness ==
    /\ probe.out = <<TRUE>>
    /\ probe.ids = <<1177>>
    /\ probe.data = <<15, 249, 144, 64>>

\* C13: a send() called while busy is true or while backoffUntil > now issues
\* no request, arms no watchdog and leaves busy, busyTimer, currentMac,
\* consecutiveErrors and backoffUntil unchanged; hence no request is issued
\* at a time within an active cooldown.
C13_RejectedSendNoEffect ==
    [][ /\ \/ UNCHANGED <<busy, busyTimer, currentMac, consecutiveErrors, backoffUntil,
                           timers, pending, nsends>>
           \/ ~(busy \/ backoffUntil > now)
           \/ \A a \in Adverts :
                 \/ ~Qualifies(a)
                 \/ RateLimited(lastSent, normalizeAddr(a[3]), now)
                 \/ ~onBle(a[1], a[2], a[3], a[4])
        /\ nsends' # nsends => backoffUntil <= now ]_vars

\* a packet has reached send() while the gateway was idle in a cooldown,
\* and was rejected
C13_Witness ==
    /\ last.op = "onBle"
    /\ last.res = "rejected"
    /\ ~busy
    /\ backoffUntil > now

\* one failure report: the count goes up by exactly one, and a count above
\* the threshold sets the cooldown to now + min(cap, step * count)
FailedOnce ==
    /\ consecutiveErrors' = consecutiveErrors + 1
    /\ backoffUntil' =
          IF consecutiveErrors + 1 > BACKOFF_MIN_ERRORS
          THEN now + Min(BACKOFF_MAX_SEC, BACKOFF_STEP_SEC * (consecutiveErrors + 1))
          ELSE backoffUntil

\* C14: a transport error (whatever the response), a response with a status
\* other than 200, a completion with neither error nor response, and a
\* watchdog expiry each raise consecutiveErrors by exactly one and then apply
\* the same cooldown rule; only error 0 with status 200 is a success; the
\* count is never negative.
C14_FailuresFeedAlike ==
    [][ /\ \A id \in pending, r \in Responses, e \in ErrorCodes :
              httpCallback(id, r, e) =>
                  IF e = 0 /\ r = <<200>>
                  THEN consecutiveErrors' = 0 /\ backoffUntil' = 0
                  ELSE FailedOnce
        /\ \A h \in DOMAIN timers : resetBusy(h) => FailedOnce
        /\ consecutiveErrors' >= 0 ]_vars

\* a watchdog expiry has raised the count by one and set a cooldown
C14_Witness ==
    /\ last.op = "resetBusy"
    /\ consecutiveErrors = last.n + 1
    /\ backoffUntil = now + Min(BACKOFF_MAX_SEC, BACKOFF_STEP_SEC * consecutiveErrors)

\* C15: an advertisement that passes the filter and the rate limit at time
\* now has lastSent[address] = now once its handler has run, whether send()
\* accepted or rejected it; a completion and a watchdog expiry leave the
\* store as it is; no handler but the cleanup removes or lowers a recorded
\* timestamp; a request is issued only in the handler of the advertisement
\* it carries, so a rejected packet is neither queued nor retried.
C15_RecordedWithoutRollback ==
    [][ /\ \/ ~Forwarded(last')
           \/ \A a \in Adverts :
                 \/ ~Qualifies(a)
                 \/ RateLimited(lastSent, normalizeAddr(a[3]), now)
                 \/ ~onBle(a[1], a[2], a[3], a[4])
                 \/ /\ normalizeAddr(a[3]) \in DOMAIN lastSent'
                    /\ lastSent'[normalizeAddr(a[3])] = now
        /\ \A id \in pending, r \in Responses, e \in ErrorCodes :
              httpCallback(id, r, e) => lastSent' = lastSent
        /\ \A h \in DOMAIN timers : resetBusy(h) => lastSent' = lastSent
        /\ \/ \A m \in DOMAIN lastSent :
                 m \in DOMAIN lastSent' /\ lastSent'[m] >= lastSent[m]
           \/ cleanupLastSent
        /\ \/ nsends' = nsends
           \/ \E a \in Adverts : onBle(a[1], a[2], a[3], a[4]) /\ Qualifies(a) ]_vars

\* a packet was rejected by send() because a delivery was in flight, and its
\* device is recorded at the current time all the same
C15_Witness ==
    /\ last.op = "onBle"
    /\ last.res = "rejected"
    /\ busy
    /\ last.mac \in DOMAIN lastSent
    /\ lastSent[last.mac] = now

\* C16: in every reachable state, a failure count of at most 3 comes with
\* backoffUntil = 0: no cooldown exists until a run of more than 3 failures.
C16_NoCooldownBelowThreshold ==
    consecutiveErrors <= 3 => backoffUntil = 0

\* the third failure in a row has been reported and no cooldown is set
C16_Witness ==
    /\ FailureReported(last)
    /\ consecutiveErrors = 3
    /\ backoffUntil = 0

\* C17: between handlers at most one watchdog is armed, and busyTimer holds a
\* handle exactly when busy is true: the slot is idle with no watchdog, or
\* sending with exactly one, the one busyTimer names.
C17_WatchdogIffBusy ==
    /\ busy <=> busyTimer # NULL
    /\ Cardinality(DOMAIN timers) <= 1
    /\ busy => DOMAIN timers = {busyTimer}
    /\ ~busy => DOMAIN timers = {}

\* a send holds the slot with its watchdog armed while the request of an
\* earlier send is still out
C17_Witness ==
    /\ busy
    /\ DOMAIN timers = {nsends}
    /\ Cardinality(pending) = 2

\* C18: a cleanup pass over a store above capacity evicts oldest first: every
\* evicted record's timestamp is at most every retained record's; retained
\* records keep their timestamps; busy, busyTimer, currentMac,
\* consecutiveErrors and backoffUntil are unchanged; a pass over a store of
\* at most MAX_LASTSENT_ENTRIES records changes nothing.
C18_OldestFirstOnly ==
    [][ cleanupLastSent =>
            /\ DOMAIN lastSent' \subseteq DOMAIN lastSent
            /\ \A r \in DOMAIN lastSent \ DOMAIN lastSent' :
                   \A k \in DOMAIN lastSent' : lastSent[r] <= lastSent[k]
            /\ \A k \in DOMAIN lastSent' : lastSent'[k] = lastSent[k]
            /\ UNCHANGED <<busy, busyTimer, currentMac, consecutiveErrors, backoffUntil,
                           timers, pending, nsends>>
            /\ Cardinality(DOMAIN lastSent) <= MAX_LASTSENT_ENTRIES
                  => lastSent' = lastSent ]_vars

\* a pass has evicted a record that was strictly older than one it kept,
\* while a send was in flight
C18_Witness ==
    /\ last.op = "cleanupLastSent"
    /\ last.res = "evicted"
    /\ busy
    /\ \E r \in DOMAIN lastFwd \ DOMAIN lastSent :
           \E k \in DOMAIN lastSent : lastFwd[r] < lastSent[k]

\* C19: when the completion of an accepted send runs before that send's
\* watchdog has fired, the completion reports the outcome, the send's
\* watchdog is no longer armed and never fires afterwards: the completion's
\* outcome is the only one reported for that send.
C19_CompletionCancelsWatchdog ==
    [][ \A s \in 1..nsends :
            /\ (s \in pending /\ s \notin pending') =>
                  /\ last'.op = "httpCallback" /\ last'.id = s
                  /\ last'.res \in {"success", "failure"}
            /\ (s \notin pending' /\ s \notin wdFired) =>
                  /\ s \notin DOMAIN timers'
                  /\ s \notin wdFired' ]_vars

\* the only send completed before its watchdog was due, and the time at
\* which the watchdog would have fired has passed without it firing
C19_Witness ==
    /\ nsends = 1
    /\ pending = {}
    /\ wdFired = {}
    /\ currentMac \in DOMAIN lastFwd
    /\ now >= lastFwd[currentMac] + WATCHDOG_SEC

\* C20: in every reachable state busy = TRUE implies backoffUntil <= now: a
\* send is never in flight while a cooldown is active.
C20_NoSendDuringCooldown ==
    busy => backoffUntil <= now

\* a send is in flight after a cooldown that has run out and is still stored
C20_Witness ==
    /\ busy
    /\ backoffUntil # 0
    /\ consecutiveErrors > BACKOFF_MIN_ERRORS

====
